---------------------------- MODULE Spec2Model ----------------------------
(***************************************************************************)
(* dailzLRU: the recency list (lru/list.go), the LRU core built on it, the *)
(* thread-safe LRU facade (Cache) and the 2Q cache (TwoQueueCache).        *)
(*                                                                         *)
(* The LRU core (package lru, type LRU) is not among the source files;     *)
(* only its list, its test and its callers are.  Its operations are        *)
(* modelled from section 4.2 of the specification, on top of the list      *)
(* operations translated from lru/list.go.                                 *)
(***************************************************************************)
EXTENDS Integers, Sequences, FiniteSets

\* ------------------------------------------------------------------ bounds
NumKeys == 3
NumVals == 2
MaxCap == 2
NumThreads == 2
MaxSize == 2

Keys == 1..NumKeys
Vals == 1..NumVals
Threads == 1..NumThreads

\* The zero value of K and of V (Go's `var k K`), never a key or value in use.
Zero == 0
\* The nil pointer.
Nil == -1
\* The address of the list's sentinel, &l.root; an entry's list field holds it
\* when the entry belongs to the list.
Root == 0
\* The address of the entry allocated for key k.  At most one entry per key
\* is live in a list, so the key names the allocation.
newEntry(k) == k
Node == 0..NumKeys

\* ---------------------------------------------------------- lru/list.go
ZeroEntry == [next |-> Nil, prev |-> Nil, list |-> Nil, key |-> Zero, value |-> Zero]

ZeroList == [n |-> [a \in Node |-> ZeroEntry], len |-> 0]

init(l) == [n |-> [l.n EXCEPT ![Root].next = Root, ![Root].prev = Root], len |-> 0]

newList == init(ZeroList)

length(l) == l.len

backFront(l) == IF l.len = 0 THEN Nil ELSE l.n[Root].next

back(l) == IF l.len = 0 THEN Nil ELSE l.n[Root].prev

prevEntry(l, e) ==
    LET p == l.n[e].prev
    IN  IF l.n[e].list # Nil /\ p # Root THEN p ELSE Nil

lazyInit(l) == IF l.n[Root].next = Nil THEN init(l) ELSE l

insertNoLen(l, e, at) ==
    LET n1 == [l.n EXCEPT ![e].prev = at]
        n2 == [n1 EXCEPT ![e].next = n1[at].next]
        n3 == [n2 EXCEPT ![n2[e].prev].next = e]
        n4 == [n3 EXCEPT ![n3[e].next].prev = e]
        n5 == [n4 EXCEPT ![e].list = Root]
    IN  [n |-> n5, len |-> l.len]

insert(l, e, at) ==
    LET n1 == [l.n EXCEPT ![e].prev = at]
        n2 == [n1 EXCEPT ![e].next = n1[at].next]
        n3 == [n2 EXCEPT ![n2[e].prev].next = e]
        n4 == [n3 EXCEPT ![n3[e].next].prev = e]
        n5 == [n4 EXCEPT ![e].list = Root]
    IN  [n |-> n5, len |-> l.len + 1]

insertValue(l, k, v, at) ==
    insert([l EXCEPT !.n[newEntry(k)] = [ZeroEntry EXCEPT !.key = k, !.value = v]],
           newEntry(k), at)

remove(l, e) ==
    LET n1 == [l.n EXCEPT ![l.n[e].prev].next = l.n[e].next]
        n2 == [n1 EXCEPT ![n1[e].next].prev = n1[e].prev]
        n3 == [n2 EXCEPT ![e].next = Nil, ![e].prev = Nil, ![e].list = Nil]
    IN  [n |-> n3, len |-> l.len - 1]

moveNoUnlink(l, e, at) ==
    IF e = at THEN l
    ELSE LET n3 == [l.n EXCEPT ![e].prev = at]
             n4 == [n3 EXCEPT ![e].next = n3[at].next]
             n5 == [n4 EXCEPT ![n4[e].prev].next = e]
             n6 == [n5 EXCEPT ![n5[e].next].prev = e]
         IN  [l EXCEPT !.n = n6]

move(l, e, at) ==
    IF e = at THEN l
    ELSE LET n1 == [l.n EXCEPT ![l.n[e].prev].next = l.n[e].next]
             n2 == [n1 EXCEPT ![n1[e].next].prev = n1[e].prev]
             n3 == [n2 EXCEPT ![e].prev = at]
             n4 == [n3 EXCEPT ![e].next = n3[at].next]
             n5 == [n4 EXCEPT ![n4[e].prev].next = e]
             n6 == [n5 EXCEPT ![n5[e].next].prev = e]
         IN  [l EXCEPT !.n = n6]

pushFront(l, k, v) == insertValue(lazyInit(l), k, v, Root)

moveToFrontNever(l, e) == l

moveToFront(l, e) ==
    IF l.n[e].list # Root \/ l.n[Root].next = e THEN l ELSE move(l, e, Root)

\* ------------------------------------------- the LRU core (package lru)
\* c = [capacity, index, order, onEvict]: index maps a key to its entry (Nil
\* when absent), order is the recency list, onEvict says whether a callback
\* was given.  Every operation yields [c, ret, cb]: the core after it, what
\* it returns, and the (key, value) pairs it passed to the callback, in order.

NoIndex == [k \in Keys |-> Nil]

NewLRUOk(capacity) == capacity > 0

NewLRU(capacity, onEvict) ==
    [capacity |-> capacity, index |-> NoIndex, order |-> newList, onEvict |-> onEvict]

LRULen(c) == length(c.order)

LRUContains(c, k) == c.index[k] # Nil

LRUPeek(c, k) ==
    IF c.index[k] # Nil
    THEN [value |-> c.order.n[c.index[k]].value, ok |-> TRUE]
    ELSE [value |-> Zero, ok |-> FALSE]

LRUGetOldest(c) ==
    LET e == back(c.order)
    IN  IF e # Nil
        THEN [key |-> c.order.n[e].key, value |-> c.order.n[e].value, ok |-> TRUE]
        ELSE [key |-> Zero, value |-> Zero, ok |-> FALSE]

RECURSIVE walkBack(_, _, _)
walkBack(l, e, fuel) ==
    IF e = Nil \/ fuel = 0 THEN <<>>
    ELSE <<l.n[e].key>> \o walkBack(l, prevEntry(l, e), fuel - 1)

\* Keys, oldest first: from back() along prevEntry().
LRUKeys(c) == walkBack(c.order, back(c.order), NumKeys + 1)

\* Unlink e, forget its key, report it; the entry is unreachable afterwards
\* and its storage is returned to the zero entry.
removeElement(c, e) ==
    LET k == c.order.n[e].key
        v == c.order.n[e].value
        l == remove(c.order, e)
    IN  [c  |-> [c EXCEPT !.order = [l EXCEPT !.n[e] = ZeroEntry],
                          !.index = [c.index EXCEPT ![k] = Nil]],
         cb |-> IF c.onEvict THEN << <<k, v>> >> ELSE <<>>]

removeOldest(c) ==
    LET e == back(c.order)
    IN  IF e # Nil THEN removeElement(c, e) ELSE [c |-> c, cb |-> <<>>]

LRUAdd(c, k, v) ==
    IF c.index[k] # Nil
    THEN LET l == moveToFront(c.order, c.index[k])
         IN  [c   |-> [c EXCEPT !.order = [l EXCEPT !.n[c.index[k]].value = v]],
              ret |-> FALSE, cb |-> <<>>]
    ELSE LET c1 == [c EXCEPT !.order = pushFront(c.order, k, v),
                             !.index = [c.index EXCEPT ![k] = newEntry(k)]]
         IN  IF length(c1.order) > c1.capacity
             THEN LET r == removeOldest(c1) IN [c |-> r.c, ret |-> TRUE, cb |-> r.cb]
             ELSE [c |-> c1, ret |-> FALSE, cb |-> <<>>]

LRUGet(c, k) ==
    IF c.index[k] # Nil
    THEN [c |-> [c EXCEPT !.order = moveToFront(c.order, c.index[k])],
          value |-> c.order.n[c.index[k]].value, ok |-> TRUE]
    ELSE [c |-> c, value |-> Zero, ok |-> FALSE]

LRURemove(c, k) ==
    IF c.index[k] # Nil
    THEN LET r == removeElement(c, c.index[k]) IN [c |-> r.c, ret |-> TRUE, cb |-> r.cb]
    ELSE [c |-> c, ret |-> FALSE, cb |-> <<>>]

LRURemoveOldest(c) ==
    LET o == LRUGetOldest(c)
        r == removeOldest(c)
    IN  [c |-> r.c, key |-> o.key, value |-> o.value, ok |-> o.ok, cb |-> r.cb]

RECURSIVE drain(_, _)
drain(c, n) ==
    IF n <= 0 THEN [c |-> c, cb |-> <<>>]
    ELSE LET r == removeOldest(c)
             s == drain(r.c, n - 1)
         IN  [c |-> s.c, cb |-> r.cb \o s.cb]

\* Resize: set the capacity to n, removing the oldest while Len > n.
LRUResize(c, n) ==
    LET diff == IF LRULen(c) - n < 0 THEN 0 ELSE LRULen(c) - n
        r    == drain(c, diff)
    IN  [c |-> [r.c EXCEPT !.capacity = n], ret |-> diff, cb |-> r.cb]

\* Purge: the callback for every entry, in the order ord of the keys (the
\* order is unspecified), then an empty index and a re-initialised list.
LRUPurge(c, ord) ==
    [c  |-> [c EXCEPT !.index = NoIndex, !.order = newList],
     cb |-> IF c.onEvict
            THEN [i \in 1..Len(ord) |-> <<ord[i], c.order.n[c.index[ord[i]]].value>>]
            ELSE <<>>]

LRUKeySet(c) == {k \in Keys : c.index[k] # Nil}

\* The orders in which Purge may visit the keys of c.
PurgeOrders(c) ==
    {s \in [1..Cardinality(LRUKeySet(c)) -> LRUKeySet(c)] :
        \A i, j \in DOMAIN s : i # j => s[i] # s[j]}


\* ------------------------------------------- the LRU facade (type Cache)
VARIABLES
    lru,            \* c.lru, the LRU core
    evictedKeys,    \* c.evictedKeys
    evictedVals,    \* c.evictedVals
    onEvictedCB,    \* whether c.onEvictedCB is not nil
    lock,           \* c.lock: w is the writer (0: none), r the set of readers
    pc,             \* where each thread is in the method it runs
    loc,            \* each thread's parameters and local variables
    owed,           \* per (key, value): removals from the cache minus callbacks
    hist,           \* the keys added, while nothing but Adds of pairwise distinct
                    \* keys has changed the cache since New; Off otherwise
    active          \* the threads that call methods

cacheVars == <<lru, evictedKeys, evictedVals, onEvictedCB, lock, pc, loc, owed, hist, active>>

\* The variables of the 2Q cache (type TwoQueueCache), which no method of a
\* Cache touches.
VARIABLES
    args,           \* the arguments of New2QWithParam, until it has run
    err,            \* the error New2QWithParam returned: "" before it has run
    twoq,           \* the TwoQueueCache: size, recentSize, recent, frequent, recentEvict
    qlock,          \* its lock: w is the writer (0: none), r the set of readers
    qpc,            \* where each thread is in the method it runs
    qloc,           \* each thread's parameters and local variables
    qhist           \* the keys added since New2QWithParam, oldest first, while
                    \* the calls were Adds of pairwise distinct keys; else Off

twoqVars == <<args, err, twoq, qlock, qpc, qloc, qhist>>

\* A recency list used on its own.
VARIABLES
    rlist,              \* the lruList
    last            \* the last call on it: its name and the entry it was given

listVars == <<rlist, last>>

Off == <<Zero>>

Pairs == (0..NumKeys) \X (0..NumVals)

LocZero ==
    [op |-> "", key |-> Zero, value |-> Zero, ok |-> FALSE, evicted |-> FALSE,
     evictedN |-> 0, k |-> Zero, v |-> Zero, ks |-> <<>>, vs |-> <<>>, i |-> 0]

\* NewWithEvict(size, onEvicted) with size > 0, and its threads.
CacheInit(threads) ==
    /\ onEvictedCB \in BOOLEAN
    /\ \E size \in 1..MaxCap : lru = NewLRU(size, onEvictedCB)
    /\ evictedKeys = <<>>
    /\ evictedVals = <<>>
    /\ lock = [w |-> 0, r |-> {}]
    /\ pc = [t \in Threads |-> "idle"]
    /\ loc = [t \in Threads |-> LocZero]
    /\ owed = [p \in Pairs |-> 0]
    /\ hist = <<>>
    /\ active = threads

\* c.lock.Lock() may return; c.lock.RLock() may return.
CanLock == lock.w = 0 /\ lock.r = {}
CanRLock == lock.w = 0

Idle(t) == t \in active /\ pc[t] = "idle"

\* The entries of the core, and those of c that c2 no longer holds.
Entries(c) == {<<k, c.order.n[c.index[k]].value>> : k \in LRUKeySet(c)}
RemovedPairs(c, c2) == {p \in Entries(c) : c2.index[p[1]] = Nil}

\* The core is called under the lock: c.lru becomes c2 and the forwarder
\* c.onEvicted appends every pair the core reports to the two buffers.
\* added is the key when the call is an Add of an absent key, else Zero.
CoreCall(c2, cb, added) ==
    /\ lru' = c2
    /\ hist' = IF c2 = lru THEN hist
               ELSE IF added # Zero /\ hist # Off /\ \A i \in DOMAIN hist : hist[i] # added
                    THEN Append(hist, added)
               ELSE Off
    /\ evictedKeys' = evictedKeys \o [i \in 1..Len(cb) |-> cb[i][1]]
    /\ evictedVals' = evictedVals \o [i \in 1..Len(cb) |-> cb[i][2]]
    /\ owed' = [p \in Pairs |->
                 IF onEvictedCB /\ p \in RemovedPairs(lru, c2) THEN owed[p] + 1 ELSE owed[p]]

\* The user's callback is entered with (k, v).
Invoke(t, k, v) ==
    /\ pc' = [pc EXCEPT ![t] = "callback"]
    /\ owed' = [owed EXCEPT ![<<k, v>>] = @ - 1]

Return(t) ==
    /\ pc' = [pc EXCEPT ![t] = "idle"]
    /\ loc' = [loc EXCEPT ![t] = LocZero]

\* if c.onEvictedCB != nil && cond { k = c.evictedKeys[0]; v = c.evictedVals[0];
\*   c.evictedKeys = c.evictedKeys[:0]; c.evictedVals = c.evictedVals[:0] }
\* c.lock.Unlock()
\* if c.onEvictedCB != nil && cond { c.onEvictedCB(k, v) }
\* return
TakeFirstKeepLock(t, cond) ==
    /\ IF onEvictedCB /\ cond
       THEN /\ loc' = [loc EXCEPT ![t].k = evictedKeys[1], ![t].v = evictedVals[1]]
            /\ evictedKeys' = <<>>
            /\ evictedVals' = <<>>
            /\ Invoke(t, evictedKeys[1], evictedVals[1])
       ELSE Return(t) /\ UNCHANGED <<evictedKeys, evictedVals, owed>>
    /\ lock' = IF onEvictedCB /\ cond THEN lock ELSE [lock EXCEPT !.w = 0]
    /\ UNCHANGED <<lru, onEvictedCB, hist, active>>

\* The same without c.evictedKeys = c.evictedKeys[:0] and
\* c.evictedVals = c.evictedVals[:0].
TakeFirstNoClear(t, cond) ==
    /\ IF onEvictedCB /\ cond
       THEN /\ loc' = [loc EXCEPT ![t].k = evictedKeys[1], ![t].v = evictedVals[1]]
            /\ UNCHANGED <<evictedKeys, evictedVals>>
            /\ Invoke(t, evictedKeys[1], evictedVals[1])
       ELSE Return(t) /\ UNCHANGED <<evictedKeys, evictedVals, owed>>
    /\ lock' = [lock EXCEPT !.w = 0]
    /\ UNCHANGED <<lru, onEvictedCB, hist, active>>

TakeFirstAndUnlock(t, cond) ==
    /\ IF onEvictedCB /\ cond
       THEN /\ loc' = [loc EXCEPT ![t].k = evictedKeys[1], ![t].v = evictedVals[1]]
            /\ evictedKeys' = <<>>
            /\ evictedVals' = <<>>
            /\ Invoke(t, evictedKeys[1], evictedVals[1])
       ELSE Return(t) /\ UNCHANGED <<evictedKeys, evictedVals, owed>>
    /\ lock' = [lock EXCEPT !.w = 0]
    /\ UNCHANGED <<lru, onEvictedCB, hist, active>>

\* if c.onEvictedCB != nil && take { ks = c.evictedKeys; vs = c.evictedVals;
\*   c.initEvictBuffers() }
\* c.lock.Unlock()
\* then the first round of: if c.onEvictedCB != nil && loop {
\*   for i := 0; i < len(ks); i++ { c.onEvictedCB(ks[i], vs[i]) } }
TakeAllAndUnlock(t, take, loop) ==
    LET ks == IF onEvictedCB /\ take THEN evictedKeys ELSE <<>>
        vs == IF onEvictedCB /\ take THEN evictedVals ELSE <<>>
    IN  /\ IF onEvictedCB /\ take
           THEN evictedKeys' = <<>> /\ evictedVals' = <<>>
           ELSE UNCHANGED <<evictedKeys, evictedVals>>
        /\ IF onEvictedCB /\ loop /\ 0 < Len(ks)
           THEN /\ loc' = [loc EXCEPT ![t].ks = ks, ![t].vs = vs]
                /\ Invoke(t, ks[1], vs[1])
           ELSE Return(t) /\ UNCHANGED owed
        /\ lock' = [lock EXCEPT !.w = 0]
        /\ UNCHANGED <<lru, onEvictedCB, hist, active>>

\* The callback has returned to the loop: i++, and the next round or return.
NextCallbackSkipLast(t) ==
    IF loc[t].i + 1 < Len(loc[t].ks) - 1
    THEN /\ loc' = [loc EXCEPT ![t].i = @ + 1]
         /\ Invoke(t, loc[t].ks[loc[t].i + 2], loc[t].vs[loc[t].i + 2])
    ELSE Return(t) /\ UNCHANGED owed

NextCallback(t) ==
    IF loc[t].i + 1 < Len(loc[t].ks)
    THEN /\ loc' = [loc EXCEPT ![t].i = @ + 1]
         /\ Invoke(t, loc[t].ks[loc[t].i + 2], loc[t].vs[loc[t].i + 2])
    ELSE Return(t) /\ UNCHANGED owed

\* ---- Get
Get_Call(t, key) ==
    /\ Idle(t) /\ CanLock
    /\ LET r == LRUGet(lru, key)
       IN  /\ CoreCall(r.c, <<>>, Zero)
           /\ loc' = [loc EXCEPT ![t].op = "Get", ![t].ok = r.ok]
    /\ lock' = [lock EXCEPT !.w = t]
    /\ pc' = [pc EXCEPT ![t] = "locked"]
    /\ UNCHANGED <<onEvictedCB, active>>
    /\ UNCHANGED <<twoqVars, listVars>>

Get_Unlock(t) ==
    /\ pc[t] = "locked" /\ loc[t].op = "Get"
    /\ lock' = [lock EXCEPT !.w = 0]
    /\ Return(t)
    /\ UNCHANGED <<lru, evictedKeys, evictedVals, onEvictedCB, owed, hist, active>>
    /\ UNCHANGED <<twoqVars, listVars>>

\* ---- Add
Add_Call(t, key, value) ==
    /\ Idle(t) /\ CanLock
    /\ LET r == LRUAdd(lru, key, value)
       IN  /\ CoreCall(r.c, r.cb, IF LRUContains(lru, key) THEN Zero ELSE key)
           /\ loc' = [loc EXCEPT ![t].op = "Add", ![t].evicted = r.ret]
    /\ lock' = [lock EXCEPT !.w = t]
    /\ pc' = [pc EXCEPT ![t] = "locked"]
    /\ UNCHANGED <<onEvictedCB, active>>
    /\ UNCHANGED <<twoqVars, listVars>>

Add_Unlock(t) ==
    /\ pc[t] = "locked" /\ loc[t].op = "Add"
    /\ TakeFirstAndUnlock(t, loc[t].evicted)
    /\ UNCHANGED <<twoqVars, listVars>>


\* ---- ContainsOrAdd
\* The check made without holding the lock up to the Add.
ContainsOrAdd_CallNoLock(t, key, value) ==
    /\ Idle(t) /\ CanLock
    /\ pc' = [pc EXCEPT ![t] = "checked"]
    /\ loc' = [loc EXCEPT ![t].op = "ContainsOrAdd", ![t].key = key, ![t].value = value,
                          ![t].ok = LRUContains(lru, key)]
    /\ UNCHANGED <<lru, evictedKeys, evictedVals, onEvictedCB, lock, owed, hist, active>>
    /\ UNCHANGED <<twoqVars, listVars>>

ContainsOrAdd_Call(t, key, value) ==
    /\ Idle(t) /\ CanLock
    /\ lock' = [lock EXCEPT !.w = t]
    /\ pc' = [pc EXCEPT ![t] = "checked"]
    /\ loc' = [loc EXCEPT ![t].op = "ContainsOrAdd", ![t].key = key, ![t].value = value,
                          ![t].ok = LRUContains(lru, key)]
    /\ UNCHANGED <<lru, evictedKeys, evictedVals, onEvictedCB, owed, hist, active>>
    /\ UNCHANGED <<twoqVars, listVars>>

ContainsOrAdd_Add(t) ==
    /\ pc[t] = "checked" /\ loc[t].op = "ContainsOrAdd"
    /\ IF loc[t].ok
       THEN /\ lock' = [lock EXCEPT !.w = 0]
            /\ Return(t)
            /\ UNCHANGED <<lru, evictedKeys, evictedVals, owed, hist>>
       ELSE /\ LET r == LRUAdd(lru, loc[t].key, loc[t].value)
               IN  /\ CoreCall(r.c, r.cb, IF LRUContains(lru, loc[t].key) THEN Zero ELSE loc[t].key)
                   /\ loc' = [loc EXCEPT ![t].evicted = r.ret]
            /\ pc' = [pc EXCEPT ![t] = "locked"]
            /\ UNCHANGED lock
    /\ UNCHANGED <<onEvictedCB, active>>
    /\ UNCHANGED <<twoqVars, listVars>>

ContainsOrAdd_Unlock(t) ==
    /\ pc[t] = "locked" /\ loc[t].op = "ContainsOrAdd"
    /\ TakeFirstAndUnlock(t, loc[t].evicted)
    /\ UNCHANGED <<twoqVars, listVars>>


\* ---- PeekOrAdd
PeekOrAdd_Call(t, key, value) ==
    /\ Idle(t) /\ CanLock
    /\ lock' = [lock EXCEPT !.w = t]
    /\ pc' = [pc EXCEPT ![t] = "checked"]
    /\ loc' = [loc EXCEPT ![t].op = "PeekOrAdd", ![t].key = key, ![t].value = value,
                          ![t].ok = LRUPeek(lru, key).ok]
    /\ UNCHANGED <<lru, evictedKeys, evictedVals, onEvictedCB, owed, hist, active>>
    /\ UNCHANGED <<twoqVars, listVars>>

PeekOrAdd_Add(t) ==
    /\ pc[t] = "checked" /\ loc[t].op = "PeekOrAdd"
    /\ IF loc[t].ok
       THEN /\ lock' = [lock EXCEPT !.w = 0]
            /\ Return(t)
            /\ UNCHANGED <<lru, evictedKeys, evictedVals, owed, hist>>
       ELSE /\ LET r == LRUAdd(lru, loc[t].key, loc[t].value)
               IN  /\ CoreCall(r.c, r.cb, IF LRUContains(lru, loc[t].key) THEN Zero ELSE loc[t].key)
                   /\ loc' = [loc EXCEPT ![t].evicted = r.ret]
            /\ pc' = [pc EXCEPT ![t] = "locked"]
            /\ UNCHANGED lock
    /\ UNCHANGED <<onEvictedCB, active>>
    /\ UNCHANGED <<twoqVars, listVars>>

PeekOrAdd_Unlock(t) ==
    /\ pc[t] = "locked" /\ loc[t].op = "PeekOrAdd"
    /\ TakeFirstAndUnlock(t, loc[t].evicted)
    /\ UNCHANGED <<twoqVars, listVars>>


\* ---- Remove
\* Remove that asks c.lru.Contains(key) instead of c.lru.Remove(key).
Remove_CallContains(t, key) ==
    /\ Idle(t) /\ CanLock
    /\ CoreCall(lru, <<>>, Zero)
    /\ loc' = [loc EXCEPT ![t].op = "Remove", ![t].ok = FALSE]
    /\ lock' = [lock EXCEPT !.w = t]
    /\ pc' = [pc EXCEPT ![t] = "locked"]
    /\ UNCHANGED <<onEvictedCB, active>>
    /\ UNCHANGED <<twoqVars, listVars>>

Remove_Call(t, key) ==
    /\ Idle(t) /\ CanLock
    /\ LET r == LRURemove(lru, key)
       IN  /\ CoreCall(r.c, r.cb, Zero)
           /\ loc' = [loc EXCEPT ![t].op = "Remove", ![t].ok = r.ret]
    /\ lock' = [lock EXCEPT !.w = t]
    /\ pc' = [pc EXCEPT ![t] = "locked"]
    /\ UNCHANGED <<onEvictedCB, active>>
    /\ UNCHANGED <<twoqVars, listVars>>

Remove_Unlock(t) ==
    /\ pc[t] = "locked" /\ loc[t].op = "Remove"
    /\ TakeFirstAndUnlock(t, loc[t].ok)
    /\ UNCHANGED <<twoqVars, listVars>>


\* ---- RemoveOldest
RemoveOldest_Call(t) ==
    /\ Idle(t) /\ CanLock
    /\ LET r == LRURemoveOldest(lru)
       IN  /\ CoreCall(r.c, r.cb, Zero)
           /\ loc' = [loc EXCEPT ![t].op = "RemoveOldest", ![t].ok = r.ok]
    /\ lock' = [lock EXCEPT !.w = t]
    /\ pc' = [pc EXCEPT ![t] = "locked"]
    /\ UNCHANGED <<onEvictedCB, active>>
    /\ UNCHANGED <<twoqVars, listVars>>

RemoveOldest_Unlock(t) ==
    /\ pc[t] = "locked" /\ loc[t].op = "RemoveOldest"
    /\ TakeFirstAndUnlock(t, loc[t].ok)
    /\ UNCHANGED <<twoqVars, listVars>>


\* ---- Resize
Resize_Call(t, size) ==
    /\ Idle(t) /\ CanLock
    /\ LET r == LRUResize(lru, size)
       IN  /\ CoreCall(r.c, r.cb, Zero)
           /\ loc' = [loc EXCEPT ![t].op = "Resize", ![t].evictedN = r.ret]
    /\ lock' = [lock EXCEPT !.w = t]
    /\ pc' = [pc EXCEPT ![t] = "locked"]
    /\ UNCHANGED <<onEvictedCB, active>>
    /\ UNCHANGED <<twoqVars, listVars>>

\* The rest of Resize as Add has it: index 0 of the buffers, one callback.
Resize_UnlockFirst(t) ==
    /\ pc[t] = "locked" /\ loc[t].op = "Resize"
    /\ TakeFirstAndUnlock(t, loc[t].evictedN > 0)
    /\ UNCHANGED <<twoqVars, listVars>>

Resize_Unlock(t) ==
    /\ pc[t] = "locked" /\ loc[t].op = "Resize"
    /\ TakeAllAndUnlock(t, loc[t].evictedN > 0, loc[t].evictedN > 0)
    /\ UNCHANGED <<twoqVars, listVars>>


\* ---- Purge
Purge_Call(t) ==
    /\ Idle(t) /\ CanLock
    /\ \E ord \in PurgeOrders(lru) :
          LET r == LRUPurge(lru, ord) IN CoreCall(r.c, r.cb, Zero)
    /\ loc' = [loc EXCEPT ![t].op = "Purge"]
    /\ lock' = [lock EXCEPT !.w = t]
    /\ pc' = [pc EXCEPT ![t] = "locked"]
    /\ UNCHANGED <<onEvictedCB, active>>
    /\ UNCHANGED <<twoqVars, listVars>>

Purge_Unlock(t) ==
    /\ pc[t] = "locked" /\ loc[t].op = "Purge"
    /\ TakeAllAndUnlock(t, Len(evictedKeys) > 0, TRUE)
    /\ UNCHANGED <<twoqVars, listVars>>


\* ---- Contains, GetOldest, Keys, Len: RLock, read, RUnlock
Read_Call(t) ==
    /\ Idle(t) /\ CanRLock
    /\ lock' = [lock EXCEPT !.r = @ \cup {t}]
    /\ pc' = [pc EXCEPT ![t] = "rlocked"]
    /\ UNCHANGED <<loc, lru, evictedKeys, evictedVals, onEvictedCB, owed, hist, active>>
    /\ UNCHANGED <<twoqVars, listVars>>

Contains_Call(t, key) == Read_Call(t)

GetOldest_Call(t) == Read_Call(t)

Keys_Call(t) == Read_Call(t)

Len_Call(t) == Read_Call(t)

Read_Unlock(t) ==
    /\ pc[t] = "rlocked"
    /\ lock' = [lock EXCEPT !.r = @ \ {t}]
    /\ Return(t)
    /\ UNCHANGED <<lru, evictedKeys, evictedVals, onEvictedCB, owed, hist, active>>
    /\ UNCHANGED <<twoqVars, listVars>>

\* ---- the user's callback: it calls back into the cache (c.Len(), which
\* takes the shared lock) and returns to the method that invoked it.
UserCallback(t) ==
    /\ pc[t] = "callback"
    /\ CanRLock
    /\ IF loc[t].op \in {"Resize", "Purge"}
       THEN /\ NextCallback(t)
       ELSE Return(t) /\ UNCHANGED owed
    /\ UNCHANGED <<lru, evictedKeys, evictedVals, onEvictedCB, lock, hist, active>>
    /\ UNCHANGED <<twoqVars, listVars>>

CacheStep(t) ==
    \/ \E key \in Keys : Get_Call(t, key)
    \/ Get_Unlock(t)
    \/ \E key \in Keys, value \in Vals : Add_Call(t, key, value)
    \/ Add_Unlock(t)
    \/ \E key \in Keys, value \in Vals : ContainsOrAdd_Call(t, key, value)
    \/ ContainsOrAdd_Add(t)
    \/ ContainsOrAdd_Unlock(t)
    \/ \E key \in Keys, value \in Vals : PeekOrAdd_Call(t, key, value)
    \/ PeekOrAdd_Add(t)
    \/ PeekOrAdd_Unlock(t)
    \/ \E key \in Keys : Remove_Call(t, key)
    \/ Remove_Unlock(t)
    \/ RemoveOldest_Call(t)
    \/ RemoveOldest_Unlock(t)
    \/ \E size \in 1..MaxCap : Resize_Call(t, size)
    \/ Resize_Unlock(t)
    \/ Purge_Call(t)
    \/ Purge_Unlock(t)
    \/ \E key \in Keys : Contains_Call(t, key)
    \/ GetOldest_Call(t)
    \/ Keys_Call(t)
    \/ Len_Call(t)
    \/ Read_Unlock(t)
    \/ UserCallback(t)

\* --------------------------------------- the 2Q cache (type TwoQueueCache)
\* A ratio is held in quarters: 0 is 0.0, 1 is Default2QRecentRatio (0.25),
\* 2 is Default2QGhostEntries (0.5), 4 is 1.0; -1 and 5 lie outside [0, 1].
Ratios == {-1, 0, 1, 2, 4, 5}

\* int(float64(size) * ratio)
scale(size, ratio) == (size * ratio) \div 4

NilCache ==
    [size |-> 0, recentSize |-> 0, recent |-> NewLRU(0, FALSE),
     frequent |-> NewLRU(0, FALSE), recentEvict |-> NewLRU(0, FALSE)]

\* New2Q(size) is New2QWithParam(size, Default2QRecentRatio, Default2QGhostEntries).
New2QWithParam(size, recentRatio, ghostRatio) ==
    IF size <= 0 THEN [c |-> NilCache, err |-> "invalid size"]
    ELSE IF recentRatio < 0 \/ recentRatio > 4
    THEN [c |-> NilCache, err |-> "invalid recent ratio"]
    ELSE IF ghostRatio < 0 \/ ghostRatio > 4
    THEN [c |-> NilCache, err |-> "invalid ghost ratio"]
    ELSE LET recentSize == scale(size, recentRatio)
             evictSize  == scale(size, ghostRatio)
         IN  IF ~NewLRUOk(size) \/ ~NewLRUOk(evictSize)
             THEN [c |-> NilCache, err |-> "InvalidSize"]
             ELSE [c |-> [size |-> size, recentSize |-> recentSize,
                          recent |-> NewLRU(size, FALSE),
                          frequent |-> NewLRU(size, FALSE),
                          recentEvict |-> NewLRU(evictSize, FALSE)],
                   err |-> "nil"]

\* ensureSpace whose tie-break ignores recentEvict.
ensureSpaceNoBias(c, recentEvict) ==
    LET recentLen == LRULen(c.recent)
        freqLen   == LRULen(c.frequent)
    IN  IF recentLen + freqLen < c.size THEN c
        ELSE IF recentLen > 0 /\ recentLen >= c.recentSize
        THEN LET r == LRURemoveOldest(c.recent)
             IN  [c EXCEPT !.recent = r.c,
                           !.recentEvict = LRUAdd(c.recentEvict, r.key, Zero).c]
        ELSE [c EXCEPT !.frequent = LRURemoveOldest(c.frequent).c]

ensureSpace(c, recentEvict) ==
    LET recentLen == LRULen(c.recent)
        freqLen   == LRULen(c.frequent)
    IN  IF recentLen + freqLen < c.size THEN c
        ELSE IF recentLen > 0 /\ (recentLen > c.recentSize
                                   \/ (recentLen = c.recentSize /\ ~recentEvict))
        THEN LET r == LRURemoveOldest(c.recent)
             IN  [c EXCEPT !.recent = r.c,
                           !.recentEvict = LRUAdd(c.recentEvict, r.key, Zero).c]
        ELSE [c EXCEPT !.frequent = LRURemoveOldest(c.frequent).c]

\* The history after a call: an Add of a key that is in none of the
\* sub-caches and was not added before extends it; any other Add, and any
\* Get, Remove or Purge, ends it.
QHistAdd(key) ==
    IF /\ qhist # Off
       /\ ~LRUContains(twoq.frequent, key) /\ ~LRUContains(twoq.recent, key)
       /\ ~LRUContains(twoq.recentEvict, key)
       /\ \A i \in DOMAIN qhist : qhist[i] # key
    THEN Append(qhist, key)
    ELSE Off

QLocZero == [op |-> "", at |-> "", key |-> Zero, value |-> Zero]

ZeroArgs == [size |-> 0, recentRatio |-> 0, ghostRatio |-> 0]

\* Before New2QWithParam(size, recentRatio, ghostRatio) is called.
TwoQInit ==
    /\ args \in [size : 0..MaxSize, recentRatio : Ratios, ghostRatio : Ratios]
    /\ err = ""
    /\ twoq = NilCache
    /\ qlock = [w |-> 0, r |-> {}]
    /\ qpc = [t \in Threads |-> "idle"]
    /\ qloc = [t \in Threads |-> QLocZero]

New2Q_Call ==
    /\ err = ""
    /\ LET r == New2QWithParam(args.size, args.recentRatio, args.ghostRatio)
       IN  twoq' = r.c /\ err' = r.err
    /\ args' = ZeroArgs
    /\ UNCHANGED <<qlock, qpc, qloc, qhist>>
    /\ UNCHANGED <<cacheVars, listVars>>

QCanLock == qlock.w = 0 /\ qlock.r = {}
QCanRLock == qlock.w = 0

QIdle(t) == err = "nil" /\ qpc[t] = "idle"

\* Get, Add, Remove and Purge hold the lock as writer from their first
\* statement to their return (c.lock.Lock(); defer c.lock.Unlock()), so
\* nothing observes their intermediate states.  A path through them is one
\* step, except the paths that move a key from one sub-cache to another,
\* which are two steps: up to and including the first call that changes a
\* sub-cache (QLock), and the rest up to the return (QUnlock).
QWhole ==
    /\ UNCHANGED <<args, err, qlock, qpc, qloc>>
    /\ UNCHANGED <<cacheVars, listVars>>

QLock(t, op, at, key, value) ==
    /\ qlock' = [qlock EXCEPT !.w = t]
    /\ qpc' = [qpc EXCEPT ![t] = "locked"]
    /\ qloc' = [qloc EXCEPT ![t] = [op |-> op, at |-> at, key |-> key, value |-> value]]
    /\ UNCHANGED <<args, err>>
    /\ UNCHANGED <<cacheVars, listVars>>

QUnlock(t) ==
    /\ qlock' = [qlock EXCEPT !.w = 0]
    /\ qpc' = [qpc EXCEPT ![t] = "idle"]
    /\ qloc' = [qloc EXCEPT ![t] = QLocZero]
    /\ UNCHANGED <<args, err, qhist>>
    /\ UNCHANGED <<cacheVars, listVars>>

\* ---- Get: a hit in frequent and a miss are one step; a hit in recent is
\* c.recent.Remove(key), then c.frequent.Add(key, value)
\* Get that leaves the key in recent.
QGet_CallKeep(t, key) ==
    /\ QIdle(t) /\ QCanLock
    /\ qhist' = Off
    /\ LET f == LRUGet(twoq.frequent, key)
           p == LRUPeek(twoq.recent, key)
       IN  IF f.ok
           THEN twoq' = [twoq EXCEPT !.frequent = f.c] /\ QWhole
           ELSE IF p.ok
           THEN UNCHANGED twoq /\ QLock(t, "Get", "recent", key, p.value)
           ELSE UNCHANGED twoq /\ QWhole

QGet_Call(t, key) ==
    /\ QIdle(t) /\ QCanLock
    /\ qhist' = Off
    /\ LET f == LRUGet(twoq.frequent, key)
           p == LRUPeek(twoq.recent, key)
       IN  IF f.ok
           THEN twoq' = [twoq EXCEPT !.frequent = f.c] /\ QWhole
           ELSE IF p.ok
           THEN /\ twoq' = [twoq EXCEPT !.recent = LRURemove(twoq.recent, key).c]
                /\ QLock(t, "Get", "recent", key, p.value)
           ELSE UNCHANGED twoq /\ QWhole

QGet_Finish(t) ==
    /\ qpc[t] = "locked" /\ qloc[t].op = "Get"
    /\ twoq' = [twoq EXCEPT !.frequent = LRUAdd(twoq.frequent, qloc[t].key, qloc[t].value).c]
    /\ QUnlock(t)

\* ---- Add: of a key in frequent, and of a key in none of the sub-caches
\* (c.ensureSpace(false); c.recent.Add(key, value)), one step; of a key in
\* recent, c.recent.Remove(key), then c.frequent.Add(key, value); of a key
\* in recentEvict, c.ensureSpace(true), then c.recentEvict.Remove(key);
\* c.frequent.Add(key, value)
\* Add that calls c.ensureSpace(true) on a cold miss as well.
QAdd_CallGhostFlag(t, key, value) ==
    /\ QIdle(t) /\ QCanLock
    /\ qhist' = QHistAdd(key)
    /\ IF LRUContains(twoq.frequent, key)
       THEN /\ twoq' = [twoq EXCEPT !.frequent = LRUAdd(twoq.frequent, key, value).c]
            /\ QWhole
       ELSE IF LRUContains(twoq.recent, key)
       THEN /\ twoq' = [twoq EXCEPT !.recent = LRURemove(twoq.recent, key).c]
            /\ QLock(t, "Add", "recent", key, value)
       ELSE IF LRUContains(twoq.recentEvict, key)
       THEN /\ twoq' = ensureSpace(twoq, TRUE)
            /\ QLock(t, "Add", "ghost", key, value)
       ELSE /\ LET c1 == ensureSpace(twoq, TRUE)
               IN  twoq' = [c1 EXCEPT !.recent = LRUAdd(c1.recent, key, value).c]
            /\ QWhole

\* Add that, finding its key in recent, skips c.recent.Remove(key).
QAdd_CallKeep(t, key, value) ==
    /\ QIdle(t) /\ QCanLock
    /\ qhist' = QHistAdd(key)
    /\ IF LRUContains(twoq.frequent, key)
       THEN /\ twoq' = [twoq EXCEPT !.frequent = LRUAdd(twoq.frequent, key, value).c]
            /\ QWhole
       ELSE IF LRUContains(twoq.recent, key)
       THEN /\ UNCHANGED twoq
            /\ QLock(t, "Add", "recent", key, value)
       ELSE IF LRUContains(twoq.recentEvict, key)
       THEN /\ twoq' = ensureSpace(twoq, TRUE)
            /\ QLock(t, "Add", "ghost", key, value)
       ELSE /\ LET c1 == ensureSpace(twoq, FALSE)
               IN  twoq' = [c1 EXCEPT !.recent = LRUAdd(c1.recent, key, value).c]
            /\ QWhole

QAdd_Call(t, key, value) ==
    /\ QIdle(t) /\ QCanLock
    /\ qhist' = QHistAdd(key)
    /\ IF LRUContains(twoq.frequent, key)
       THEN /\ twoq' = [twoq EXCEPT !.frequent = LRUAdd(twoq.frequent, key, value).c]
            /\ QWhole
       ELSE IF LRUContains(twoq.recent, key)
       THEN /\ twoq' = [twoq EXCEPT !.recent = LRURemove(twoq.recent, key).c]
            /\ QLock(t, "Add", "recent", key, value)
       ELSE IF LRUContains(twoq.recentEvict, key)
       THEN /\ twoq' = ensureSpace(twoq, TRUE)
            /\ QLock(t, "Add", "ghost", key, value)
       ELSE /\ LET c1 == ensureSpace(twoq, FALSE)
               IN  twoq' = [c1 EXCEPT !.recent = LRUAdd(c1.recent, key, value).c]
            /\ QWhole

\* The rest of Add, with c.recent.Add(key, value) on a ghost hit.
QAdd_FinishRecent(t) ==
    /\ qpc[t] = "locked" /\ qloc[t].op = "Add"
    /\ LET key == qloc[t].key
           value == qloc[t].value
       IN  twoq' =
             IF qloc[t].at = "ghost"
             THEN [twoq EXCEPT !.recentEvict = LRURemove(twoq.recentEvict, key).c,
                               !.recent = LRUAdd(twoq.recent, key, value).c]
             ELSE [twoq EXCEPT !.frequent = LRUAdd(twoq.frequent, key, value).c]
    /\ QUnlock(t)

\* The rest of Add, without c.recentEvict.Remove(key) on a ghost hit.
QAdd_FinishKeepGhost(t) ==
    /\ qpc[t] = "locked" /\ qloc[t].op = "Add"
    /\ LET key == qloc[t].key
           value == qloc[t].value
       IN  twoq' = [twoq EXCEPT !.frequent = LRUAdd(twoq.frequent, key, value).c]
    /\ QUnlock(t)

QAdd_Finish(t) ==
    /\ qpc[t] = "locked" /\ qloc[t].op = "Add"
    /\ LET key == qloc[t].key
           value == qloc[t].value
       IN  twoq' =
             IF qloc[t].at = "ghost"
             THEN [twoq EXCEPT !.recentEvict = LRURemove(twoq.recentEvict, key).c,
                               !.frequent = LRUAdd(twoq.frequent, key, value).c]
             ELSE [twoq EXCEPT !.frequent = LRUAdd(twoq.frequent, key, value).c]
    /\ QUnlock(t)

\* ---- Remove
QRemove(t, key) ==
    /\ QIdle(t) /\ QCanLock
    /\ qhist' = Off
    /\ twoq' = IF LRUContains(twoq.frequent, key)
               THEN [twoq EXCEPT !.frequent = LRURemove(twoq.frequent, key).c]
               ELSE IF LRUContains(twoq.recent, key)
               THEN [twoq EXCEPT !.recent = LRURemove(twoq.recent, key).c]
               ELSE [twoq EXCEPT !.recentEvict = LRURemove(twoq.recentEvict, key).c]
    /\ QWhole

\* ---- Purge
\* Purge without c.recentEvict.Purge().
QPurgeKeepGhost(t) ==
    /\ QIdle(t) /\ QCanLock
    /\ qhist' = Off
    /\ twoq' = [twoq EXCEPT !.recent = LRUPurge(twoq.recent, <<>>).c,
                            !.frequent = LRUPurge(twoq.frequent, <<>>).c]
    /\ QWhole

QPurge(t) ==
    /\ QIdle(t) /\ QCanLock
    /\ qhist' = Off
    /\ twoq' = [twoq EXCEPT !.recent = LRUPurge(twoq.recent, <<>>).c,
                            !.frequent = LRUPurge(twoq.frequent, <<>>).c,
                            !.recentEvict = LRUPurge(twoq.recentEvict, <<>>).c]
    /\ QWhole

\* ---- Len, Keys, Contains, Peek: RLock, read, RUnlock
QRead_Call(t) ==
    /\ QIdle(t) /\ QCanRLock
    /\ qlock' = [qlock EXCEPT !.r = @ \cup {t}]
    /\ qpc' = [qpc EXCEPT ![t] = "rlocked"]
    /\ UNCHANGED <<args, err, twoq, qloc, qhist>>
    /\ UNCHANGED <<cacheVars, listVars>>

QLen_Call(t) == QRead_Call(t)

QKeys_Call(t) == QRead_Call(t)

\* Contains(key) and Peek(key), whatever the key.
QContains_Call(t) == QRead_Call(t)

QPeek_Call(t) == QRead_Call(t)

QRead_Unlock(t) ==
    /\ qpc[t] = "rlocked"
    /\ qlock' = [qlock EXCEPT !.r = @ \ {t}]
    /\ qpc' = [qpc EXCEPT ![t] = "idle"]
    /\ UNCHANGED <<args, err, twoq, qloc, qhist>>
    /\ UNCHANGED <<cacheVars, listVars>>

\* What Len, Keys, Contains and Peek return.
QLen(c) == LRULen(c.recent) + LRULen(c.frequent)

QKeys(c) == LRUKeys(c.frequent) \o LRUKeys(c.recent)

QContains(c, key) == LRUContains(c.frequent, key) \/ LRUContains(c.recent, key)

QPeek(c, key) ==
    IF LRUPeek(c.frequent, key).ok THEN LRUPeek(c.frequent, key) ELSE LRUPeek(c.recent, key)

TwoQStep(t) ==
    \/ \E key \in Keys : QGet_Call(t, key)
    \/ QGet_Finish(t)
    \/ \E key \in Keys, value \in Vals : QAdd_Call(t, key, value)
    \/ QAdd_Finish(t)
    \/ \E key \in Keys : QRemove(t, key)
    \/ QPurge(t)
    \/ QLen_Call(t)
    \/ QKeys_Call(t)
    \/ QContains_Call(t)
    \/ QPeek_Call(t)
    \/ QRead_Unlock(t)

\* ------------------------------------------- the recency list on its own
\* The entries that belong to the list, and those that were removed from it
\* (remove clears the pointers of an entry and leaves its key and value).
Member(e) == rlist.n[e].list = Root
Removed(e) == rlist.n[e].list = Nil /\ rlist.n[e].key # Zero

\* pushFront(k, v); the entry it allocates is not one that is in the list.
List_pushFront(k, v) ==
    /\ ~Member(newEntry(k))
    /\ rlist' = pushFront(rlist, k, v)
    /\ last' = [op |-> "pushFront", e |-> newEntry(k)]
    /\ UNCHANGED <<cacheVars, twoqVars>>

\* moveToFront(e) for an entry of the list.
List_moveToFront(e) ==
    /\ Member(e)
    /\ rlist' = moveToFront(rlist, e)
    /\ last' = [op |-> "moveToFront", e |-> e]
    /\ UNCHANGED <<cacheVars, twoqVars>>

\* moveToFront(e) for an entry that was removed from the list.
List_moveToFrontRemoved(e) ==
    /\ Removed(e)
    /\ rlist' = moveToFront(rlist, e)
    /\ last' = [op |-> "moveToFront removed", e |-> e]
    /\ UNCHANGED <<cacheVars, twoqVars>>

\* remove(e) for an entry of the list.
List_remove(e) ==
    /\ Member(e)
    /\ rlist' = remove(rlist, e)
    /\ last' = [op |-> "remove", e |-> e]
    /\ UNCHANGED <<cacheVars, twoqVars>>

\* ------------------------------------------------------- specifications
vars == <<cacheVars, twoqVars, listVars>>

\* No list is in use on its own.
NoList == rlist = ZeroList /\ last = [op |-> "", e |-> Nil]

\* No Cache is in use.
NoCache ==
    /\ lru = NewLRU(0, FALSE)
    /\ evictedKeys = <<>>
    /\ evictedVals = <<>>
    /\ onEvictedCB = FALSE
    /\ lock = [w |-> 0, r |-> {}]
    /\ pc = [t \in Threads |-> "idle"]
    /\ loc = [t \in Threads |-> LocZero]
    /\ owed = [p \in Pairs |-> 0]
    /\ hist = Off
    /\ active = {}

\* No TwoQueueCache is in use.
NoTwoQ ==
    /\ args = ZeroArgs
    /\ err = ""
    /\ twoq = NilCache
    /\ qlock = [w |-> 0, r |-> {}]
    /\ qpc = [t \in Threads |-> "idle"]
    /\ qloc = [t \in Threads |-> QLocZero]
    /\ qhist = Off

Next == \E t \in Threads : CacheStep(t)

\* One thread calls the methods of a Cache.
Init == CacheInit({1}) /\ NoTwoQ /\ NoList

Spec == Init /\ [][Next]_vars

\* All threads call the methods of a Cache concurrently.
InitMT == CacheInit(Threads) /\ NoTwoQ /\ NoList

SpecMT == InitMT /\ [][Next]_vars

\* New2QWithParam is called, and all threads call the methods of what it returns.
Init2Q == TwoQInit /\ qhist = Off /\ NoCache /\ NoList

Next2Q == New2Q_Call \/ \E t \in Threads : TwoQStep(t)

Spec2Q == Init2Q /\ [][Next2Q]_vars

\* One thread calls the methods of a Cache that may have been made with a
\* capacity one above those Resize is called with, so that one Resize can
\* remove two entries.
InitResize ==
    /\ onEvictedCB \in BOOLEAN
    /\ \E size \in 1..(MaxCap + 1) : lru = NewLRU(size, onEvictedCB)
    /\ evictedKeys = <<>>
    /\ evictedVals = <<>>
    /\ lock = [w |-> 0, r |-> {}]
    /\ pc = [t \in Threads |-> "idle"]
    /\ loc = [t \in Threads |-> LocZero]
    /\ owed = [p \in Pairs |-> 0]
    /\ hist = <<>>
    /\ active = {1}
    /\ NoTwoQ /\ NoList

SpecResize == InitResize /\ [][Next]_vars

\* A list on its own, made by newList() or the zero value of lruList.
InitList ==
    /\ rlist \in {newList, ZeroList}
    /\ last = [op |-> "", e |-> Nil]
    /\ NoCache /\ NoTwoQ

NextList ==
    \/ \E k \in Keys, v \in Vals : List_pushFront(k, v)
    \/ \E e \in Keys : List_moveToFront(e)
    \/ \E e \in Keys : List_moveToFrontRemoved(e)
    \/ \E e \in Keys : List_remove(e)

SpecList == InitList /\ [][NextList]_vars

\* The same, with the record of the Adds of pairwise distinct keys kept
\* from New2QWithParam on.
InitScan == TwoQInit /\ qhist = <<>> /\ NoCache /\ NoList

SpecScan == InitScan /\ [][Next2Q]_vars

\* Either of the two: a Cache with one thread, or a TwoQueueCache.
InitEither == Init \/ Init2Q

NextEither == Next \/ Next2Q

SpecEither == InitEither /\ [][NextEither]_vars


\* ------------------------------------------------------ claims, LRU cache
\* The keys of the list from the front (root.next) along next.
RECURSIVE walkNext(_, _, _)
walkNext(l, e, fuel) ==
    IF e = Nil \/ e = Root \/ fuel = 0 THEN <<>>
    ELSE <<l.n[e].key>> \o walkNext(l, l.n[e].next, fuel - 1)

Range(s) == {s[i] : i \in DOMAIN s}

Without(s, k) == SelectSeq(s, LAMBDA x : x # k)

LastN(s, n) == IF Len(s) <= n THEN s ELSE SubSeq(s, Len(s) - n + 1, Len(s))

Reverse(s) == [i \in 1..Len(s) |-> s[Len(s) + 1 - i]]

\* C1: in every state of a cache of capacity N that Add, Get, Peek (inside
\* PeekOrAdd), Contains, Remove, RemoveOldest, ContainsOrAdd, PeekOrAdd,
\* Purge (and Resize) have brought about, Len() <= N, the index and the
\* recency list hold the same keys (as many index entries as list entries,
\* each index entry a member of the list carrying its key, the list walked
\* from the front and from the back giving the keys of the index), and every
\* key of Keys() satisfies Contains.
C1_LenIndexKeys ==
    /\ LRULen(lru) <= lru.capacity
    /\ Cardinality(LRUKeySet(lru)) = LRULen(lru)
    /\ \A k \in LRUKeySet(lru) :
          /\ lru.order.n[lru.index[k]].list = Root
          /\ lru.order.n[lru.index[k]].key = k
    /\ Len(LRUKeys(lru)) = LRULen(lru)
    /\ Range(LRUKeys(lru)) = LRUKeySet(lru)
    /\ Range(walkNext(lru.order, lru.order.n[Root].next, NumKeys + 1)) = LRUKeySet(lru)
    /\ \A i \in DOMAIN LRUKeys(lru) : LRUContains(lru, LRUKeys(lru)[i])

\* An Add has evicted from a cache at its largest capacity, and left it full.
C1_Witness ==
    /\ pc[1] = "locked" /\ loc[1].op = "Add" /\ loc[1].evicted
    /\ lru.capacity = MaxCap /\ LRULen(lru) = MaxCap

\* C2: Add of an absent key into a full cache evicts exactly the entry
\* GetOldest() named before the call, the first of Keys(), and returns true;
\* any other Add evicts nothing, returns false and changes Len() by 0 or 1;
\* either way the key becomes the newest and the other keys keep their
\* order.  And after only pairwise distinct keys were added to an empty
\* cache of capacity N, it holds exactly the last N of them, in that order.
C2_AddStep(t, key, value) ==
    LET present == LRUContains(lru, key)
        full    == LRULen(lru) = lru.capacity
        oldest  == LRUGetOldest(lru)
    IN  IF ~present /\ full
        THEN /\ loc'[t].evicted = TRUE
             /\ oldest.ok /\ oldest.key = Head(LRUKeys(lru))
             /\ RemovedPairs(lru, lru') = {<<oldest.key, oldest.value>>}
             /\ LRUKeys(lru') = Append(Tail(LRUKeys(lru)), key)
             /\ LRULen(lru') = LRULen(lru)
             /\ LRUPeek(lru', key) = [value |-> value, ok |-> TRUE]
        ELSE /\ loc'[t].evicted = FALSE
             /\ RemovedPairs(lru, lru') = {}
             /\ LRUKeys(lru') = Append(Without(LRUKeys(lru), key), key)
             /\ LRULen(lru') = LRULen(lru) + (IF present THEN 0 ELSE 1)
             /\ LRUPeek(lru', key) = [value |-> value, ok |-> TRUE]

C2_Add ==
    /\ [][\A t \in Threads, key \in Keys, value \in Vals :
            Add_Call(t, key, value) => C2_AddStep(t, key, value)]_vars
    /\ [](hist # Off => LRUKeys(lru) = LastN(hist, lru.capacity))

\* Twice as many distinct keys as the capacity were added to an empty cache.
C2_Witness ==
    /\ hist # Off /\ Len(hist) = 2 * lru.capacity
    /\ pc[1] = "locked" /\ loc[1].op = "Add" /\ loc[1].evicted

\* C3: Keys() is the list from the back to the front, its first element is
\* GetOldest()'s key; a Get that hits makes its key the last of Keys() and
\* keeps the order of the others, a Get that misses changes nothing;
\* Contains, GetOldest, Keys, Len, and the Peek of a PeekOrAdd and the
\* Contains of a ContainsOrAdd that find the key, leave Keys() as it was.
C3_GetStep(t, key) ==
    IF LRUContains(lru, key)
    THEN /\ loc'[t].ok
         /\ LRUKeys(lru') = Append(Without(LRUKeys(lru), key), key)
         /\ Entries(lru') = Entries(lru)
    ELSE ~loc'[t].ok /\ lru' = lru

C3_ReadStep(t) ==
    \/ \E key \in Keys : Contains_Call(t, key)
    \/ GetOldest_Call(t)
    \/ Keys_Call(t)
    \/ Len_Call(t)
    \/ Read_Unlock(t)
    \/ \E key \in Keys, value \in Vals : ContainsOrAdd_Call(t, key, value)
    \/ \E key \in Keys, value \in Vals : PeekOrAdd_Call(t, key, value)
    \/ (loc[t].ok /\ (ContainsOrAdd_Add(t) \/ PeekOrAdd_Add(t)))

C3_KeysOrder ==
    /\ [](/\ LRUKeys(lru) = Reverse(walkNext(lru.order, lru.order.n[Root].next, NumKeys + 1))
          /\ LRULen(lru) > 0 => LRUKeys(lru)[1] = LRUGetOldest(lru).key
          /\ LRULen(lru) = 0 => ~LRUGetOldest(lru).ok)
    /\ [][\A t \in Threads :
            /\ \A key \in Keys : Get_Call(t, key) => C3_GetStep(t, key)
            /\ C3_ReadStep(t) => LRUKeys(lru') = LRUKeys(lru)]_vars

\* A Get has hit in a cache of two or more keys.
C3_Witness ==
    /\ pc[1] = "locked" /\ loc[1].op = "Get" /\ loc[1].ok
    /\ LRULen(lru) >= 2

\* ---------------------------------------------- claims, concurrent facade
\* C7: while a thread runs the user's callback (on behalf of Add,
\* ContainsOrAdd, PeekOrAdd, Remove, RemoveOldest, Resize or Purge) it
\* holds the lock neither as writer nor as reader, so the callback's own
\* call into the cache is never blocked by its caller: whoever holds the
\* lock then is another thread on its way to unlock, and some thread can
\* always take a step.
Runnable(t) ==
    \/ pc[t] \in {"checked", "locked", "rlocked"}
    \/ pc[t] = "callback" /\ CanRLock
    \/ Idle(t) /\ CanRLock

C7_CallbackOutsideLock ==
    /\ \A t \in Threads :
          pc[t] = "callback" =>
             /\ lock.w # t
             /\ t \notin lock.r
             /\ lock.w # 0 => pc[lock.w] \in {"checked", "locked"}
    /\ \E t \in Threads : Runnable(t)

\* A callback runs while another thread holds the lock as writer.
C7_Witness ==
    \E t \in Threads : pc[t] = "callback" /\ lock.w \notin {0, t}

\* C8: with a callback registered, no entry is reported before it is removed
\* or more often than it is removed, and once every thread has returned
\* every removed entry has been reported: per (key, value), as many callback
\* invocations as removals by eviction, Remove, RemoveOldest, Resize, Purge.
C8_CallbackCount ==
    /\ \A p \in Pairs : owed[p] >= 0
    /\ (\A t \in Threads : pc[t] = "idle") => \A p \in Pairs : owed[p] = 0

\* The last callback of a bulk removal of two entries is running while
\* no other thread is in a method, and nothing remains to be reported.
C8_Witness ==
    \E t \in Threads :
       /\ pc[t] = "callback" /\ loc[t].op \in {"Resize", "Purge"}
       /\ Len(loc[t].ks) = 2 /\ loc[t].i = 1
       /\ \A u \in Threads \ {t} : pc[u] = "idle"
       /\ \A p \in Pairs : owed[p] = 0

\* C9: between the check and the Add of a ContainsOrAdd or PeekOrAdd the
\* thread holds the lock as the only writer and no other thread changes the
\* cache, so what the check found still holds when it is acted on: a key
\* found present is left alone (no eviction, the cache unchanged), a key
\* found absent is inserted with the caller's value by this call alone.
C9_Atomic ==
    /\ [](\A t \in Threads :
            pc[t] = "checked" =>
               /\ lock.w = t /\ lock.r = {}
               /\ loc[t].ok = LRUContains(lru, loc[t].key)
               /\ \A u \in Threads \ {t} : pc[u] \notin {"checked", "locked", "rlocked"})
    /\ [][\A t \in Threads :
            /\ (pc[t] = "checked" /\ pc'[t] = "checked") => lru' = lru
            /\ (pc[t] = "checked" /\ pc'[t] # "checked") =>
                  IF loc[t].ok
                  THEN lru' = lru /\ pc'[t] = "idle" /\ owed' = owed
                  ELSE /\ ~LRUContains(lru, loc[t].key)
                       /\ LRUPeek(lru', loc[t].key) = [value |-> loc[t].value, ok |-> TRUE]]_vars

\* A ContainsOrAdd has found its key absent while the other thread is
\* between its unlock and its return.
C9_Witness ==
    \E t \in Threads, u \in Threads :
       /\ pc[t] = "checked" /\ ~loc[t].ok
       /\ pc[u] = "callback"

\* ------------------------------------------------------ claims, 2Q cache
\* The keys of the three sub-caches.
RecentKeys == LRUKeySet(twoq.recent)
FrequentKeys == LRUKeySet(twoq.frequent)
GhostKeys == LRUKeySet(twoq.recentEvict)

\* C4: whenever no Add, Get, Remove or Purge is under way (each holds the
\* lock as writer from its start to its return), recent.Len() +
\* frequent.Len() <= size, and so Len() <= size.
C4_LenAtMostSize ==
    (err = "nil" /\ qlock.w = 0) =>
        /\ LRULen(twoq.recent) + LRULen(twoq.frequent) <= twoq.size
        /\ QLen(twoq) <= twoq.size

\* C5: whenever the lock is not held as writer, which is all that Contains,
\* Peek, Len, Keys or the next operation can see, no key is in both recent
\* and frequent.
C5_RecentFrequentDisjoint ==
    qlock.w = 0 => RecentKeys \cap FrequentKeys = {}

\* A reader holds the lock while recent and frequent both hold keys, after
\* a Get or an Add has moved a key from recent to frequent.
C5_Witness ==
    /\ qlock.w = 0 /\ qlock.r # {}
    /\ RecentKeys # {} /\ FrequentKeys # {}
    /\ Cardinality(RecentKeys \cup FrequentKeys) = twoq.size

\* C6: whenever no method holds the lock as writer (every method holds it
\* up to its return), no key of recentEvict is in recent or in frequent;
\* and the Add of a key k found in recentEvict returns with k in frequent
\* and in neither recent nor recentEvict, also when its ensureSpace has
\* pushed a ghost that aged k out of recentEvict before k was removed from it.
C6_GhostDisjoint ==
    /\ [](qlock.w = 0 => GhostKeys \cap (RecentKeys \cup FrequentKeys) = {})
    /\ [][\A t \in Threads :
            (QAdd_Finish(t) /\ qloc[t].at = "ghost") =>
                /\ ~LRUContains(twoq'.recentEvict, qloc[t].key)
                /\ ~LRUContains(twoq'.recent, qloc[t].key)
                /\ LRUContains(twoq'.frequent, qloc[t].key)
                /\ LRUKeySet(twoq'.recentEvict) \cap
                      (LRUKeySet(twoq'.recent) \cup LRUKeySet(twoq'.frequent)) = {}
                /\ qlock'.w = 0]_vars

\* An Add has found its key in recentEvict, and its ensureSpace has pushed
\* a ghost that aged the key out of recentEvict.
C6_Witness ==
    \E t \in Threads :
       /\ qpc[t] = "locked" /\ qloc[t].op = "Add" /\ qloc[t].at = "ghost"
       /\ ~LRUContains(twoq.recentEvict, qloc[t].key)
       /\ GhostKeys # {}

\* C10: New2QWithParam(size, recentRatio, ghostRatio) fails exactly when
\* size <= 0 or one of the ratios is outside [0, 1], so it succeeds when
\* floor(size * ghostRatio) is 0; and a cache whose ghost list has size 0
\* never holds a ghost when no method is under way, so that no Add finds
\* its key in recentEvict.
C10_ConstructorFails ==
    /\ [][New2Q_Call =>
            (err' # "nil" <=>
                \/ args.size <= 0
                \/ args.recentRatio < 0 \/ args.recentRatio > 4
                \/ args.ghostRatio < 0 \/ args.ghostRatio > 4)]_vars
    /\ []((err = "nil" /\ twoq.recentEvict.capacity = 0) =>
             /\ qlock.w = 0 => GhostKeys = {}
             /\ \A t \in Threads : qloc[t].at # "ghost")

\* ------------------------------------------------ claims, LRU cache (2)
\* C11: Remove(k) returns true exactly when k was present; after it k is
\* absent for Contains and for Get; a Remove of a present key takes out
\* that one entry and reports it to the callback, if there is one; a Remove
\* of an absent key, as a second Remove(k) is, returns false, leaves the
\* cache and the eviction buffers as they were and invokes no callback.
C11_RemoveStep(t, key) ==
    /\ loc'[t].ok = LRUContains(lru, key)
    /\ ~LRUContains(lru', key)
    /\ ~LRUGet(lru', key).ok
    /\ LRURemove(lru', key) = [c |-> lru', ret |-> FALSE, cb |-> <<>>]
    /\ IF LRUContains(lru, key)
       THEN /\ RemovedPairs(lru, lru') = {<<key, LRUPeek(lru, key).value>>}
            /\ LRUKeys(lru') = Without(LRUKeys(lru), key)
            /\ evictedKeys' = IF onEvictedCB THEN <<key>> ELSE <<>>
       ELSE /\ lru' = lru
            /\ evictedKeys' = evictedKeys /\ evictedVals' = evictedVals
            /\ owed' = owed

C11_Remove ==
    [][\A t \in Threads :
         /\ \A key \in Keys : Remove_Call(t, key) => C11_RemoveStep(t, key)
         /\ (Remove_Unlock(t) /\ ~loc[t].ok) =>
               pc'[t] = "idle" /\ owed' = owed /\ lru' = lru]_vars

\* A Remove has taken a key out of a cache of two keys, with a callback
\* registered.
C11_Witness ==
    /\ pc[1] = "locked" /\ loc[1].op = "Remove" /\ loc[1].ok
    /\ onEvictedCB /\ Len(evictedKeys) = 1
    /\ LRULen(lru) = 1

\* ------------------------------------------------ claims, both caches
\* C12: Purge, from whatever state it is called in, leaves Len() == 0 and
\* every key absent for Contains and a miss for Get, on the LRU cache and on
\* the 2Q cache; on the 2Q cache it leaves the ghost list empty as well, so
\* that an Add into a purged cache puts its key into recent and nowhere else.
C12_Purged(c) ==
    /\ LRULen(c) = 0
    /\ LRUKeys(c) = <<>>
    /\ \A k \in Keys : ~LRUContains(c, k) /\ ~LRUGet(c, k).ok /\ ~LRUPeek(c, k).ok

C12_Purge ==
    [][\A t \in Threads :
         /\ Purge_Call(t) => C12_Purged(lru')
         /\ QPurge(t) =>
              /\ QLen(twoq') = 0 /\ QKeys(twoq') = <<>>
              /\ \A k \in Keys : ~QContains(twoq', k) /\ ~QPeek(twoq', k).ok
              /\ C12_Purged(twoq'.recent) /\ C12_Purged(twoq'.frequent)
              /\ C12_Purged(twoq'.recentEvict)
         /\ \A k \in Keys, v \in Vals :
              (QAdd_Call(t, k, v) /\ QLen(twoq) = 0 /\ LRULen(twoq.recentEvict) = 0) =>
                  /\ LRUKeys(twoq'.recent) = <<k>>
                  /\ LRUPeek(twoq'.recent, k) = [value |-> v, ok |-> TRUE]
                  /\ LRULen(twoq'.frequent) = 0 /\ LRULen(twoq'.recentEvict) = 0
                  /\ qlock'.w = 0]_vars

\* A Purge of a full cache of two entries has emptied it, with a callback
\* registered.
C12_Witness ==
    /\ pc[1] = "locked" /\ loc[1].op = "Purge"
    /\ Len(evictedKeys) = 2 /\ lru.capacity = 2
    /\ LRULen(lru) = 0

\* ------------------------------------------------ claims, 2Q cache (2)
\* The key is in frequent with the value as Peek reports it, and in neither
\* recent nor recentEvict.
InFrequentOnly(c, k, v) ==
    /\ LRUContains(c.frequent, k)
    /\ ~LRUContains(c.recent, k)
    /\ ~LRUContains(c.recentEvict, k)
    /\ QPeek(c, k) = [value |-> v, ok |-> TRUE]

\* C13: every Add(k, v) returns with k resident, Peek(k) == (v, true) and k
\* not in recentEvict; and every Add(k, v') that finds k resident, as the
\* Add that immediately follows an Add(k, v) does, returns with
\* Peek(k) == (v', true) and k in frequent and in neither recent nor
\* recentEvict.
C13_AddAdd ==
    [][\A t \in Threads :
         /\ \A k \in Keys, v \in Vals :
              QAdd_Call(t, k, v) =>
                 /\ qlock'.w = 0 =>
                       /\ QContains(twoq', k) /\ ~LRUContains(twoq'.recentEvict, k)
                       /\ QPeek(twoq', k) = [value |-> v, ok |-> TRUE]
                 /\ LRUContains(twoq.frequent, k) =>
                       qlock'.w = 0 /\ InFrequentOnly(twoq', k, v)
                 /\ (~LRUContains(twoq.frequent, k) /\ LRUContains(twoq.recent, k)) =>
                       /\ qlock'.w = t /\ qpc'[t] = "locked"
                       /\ qloc'[t] = [op |-> "Add", at |-> "recent", key |-> k, value |-> v]
         /\ QAdd_Finish(t) =>
              /\ qlock'.w = 0
              /\ QContains(twoq', qloc[t].key) /\ ~LRUContains(twoq'.recentEvict, qloc[t].key)
              /\ QPeek(twoq', qloc[t].key) = [value |-> qloc[t].value, ok |-> TRUE]
              /\ qloc[t].at = "recent" => InFrequentOnly(twoq', qloc[t].key, qloc[t].value)]_vars

\* An Add has found its key in recent, where only an Add can have put it,
\* while frequent holds another key.
C13_Witness ==
    \E t \in Threads :
       /\ qpc[t] = "locked" /\ qloc[t].op = "Add" /\ qloc[t].at = "recent"
       /\ LRULen(twoq.frequent) > 0

\* What ensureSpace(recentEvict), called on c, is said to leave as the keys
\* of recent (rk), of frequent (fk) and of recentEvict (gk), each oldest
\* first; fromRecent is the condition under which it is said to evict from
\* recent.
EnsuredSpace(c, fromRecent, rk, fk, gk) ==
    LET r0 == LRUKeys(c.recent)
        f0 == LRUKeys(c.frequent)
        g0 == LRUKeys(c.recentEvict)
    IN  IF LRULen(c.recent) + LRULen(c.frequent) < c.size
        THEN rk = r0 /\ fk = f0 /\ gk = g0
        ELSE IF fromRecent
        THEN /\ fk = f0
             /\ IF r0 = <<>> THEN rk = <<>>
                ELSE /\ rk = Tail(r0)
                     /\ gk = LastN(Without(g0, Head(r0)) \o <<Head(r0)>>,
                                   c.recentEvict.capacity)
        ELSE /\ rk = r0 /\ gk = g0
             /\ fk = IF f0 = <<>> THEN <<>> ELSE Tail(f0)

\* Every call of ensureSpace by Add (ensureSpace(true) on a ghost hit,
\* ensureSpace(false), followed by c.recent.Add(k, v), on a cold miss) does
\* what EnsuredSpace says, where fromRecent(c, recentEvict) says when it
\* evicts from recent.
EnsureSpaceCalls(fromRecent(_, _)) ==
    \A t \in Threads, k \in Keys, v \in Vals :
       (QAdd_Call(t, k, v) /\ ~QContains(twoq, k)) =>
           IF LRUContains(twoq.recentEvict, k)
           THEN EnsuredSpace(twoq, fromRecent(twoq, TRUE),
                             LRUKeys(twoq'.recent), LRUKeys(twoq'.frequent),
                             LRUKeys(twoq'.recentEvict))
           ELSE /\ LRUKeys(twoq'.recent) = Without(LRUKeys(twoq'.recent), k) \o <<k>>
                /\ EnsuredSpace(twoq, fromRecent(twoq, FALSE),
                                Without(LRUKeys(twoq'.recent), k), LRUKeys(twoq'.frequent),
                                LRUKeys(twoq'.recentEvict))

C14_FromRecentAsClaimed(c, recentEvict) ==
    \/ LRULen(c.recent) > c.recentSize
    \/ LRULen(c.recent) = c.recentSize /\ ~recentEvict

C14_FromRecent(c, recentEvict) ==
    LRULen(c.recent) > 0 /\ C14_FromRecentAsClaimed(c, recentEvict)

\* C14, as claimed: ensureSpace(recentEvict), when recent.len + frequent.len
\* >= size, evicts the oldest entry of recent and records its key in the
\* ghost list whenever recent.len > recentSize, or recent.len == recentSize
\* and recentEvict is false, and otherwise evicts the oldest entry of
\* frequent and records no ghost; with recentSize == 0 too.
C14_AsClaimed == [][EnsureSpaceCalls(C14_FromRecentAsClaimed)]_vars

\* C14, amended: ensureSpace(recentEvict), when recent.len + frequent.len >=
\* size, evicts the oldest entry of recent and records its key in the ghost
\* list whenever recent is not empty and recent.len > recentSize, or
\* recent.len == recentSize and recentEvict is false; in every other case,
\* an empty recent with recentSize == 0 among them, it removes the oldest
\* entry of frequent, if there is one, and records no ghost.
C14_EnsureSpace == [][EnsureSpaceCalls(C14_FromRecent)]_vars

\* An Add has found its key in recentEvict and its ensureSpace(true) has
\* evicted an entry.
C14_Witness ==
    \E t \in Threads :
       /\ qpc[t] = "locked" /\ qloc[t].op = "Add" /\ qloc[t].at = "ghost"
       /\ QLen(twoq) = twoq.size - 1

\* C15: while the calls since New2QWithParam were Adds of pairwise distinct
\* keys (qhist, oldest first), frequent is empty, the resident keys are the
\* last size keys added, all in recent, Len() <= size, and the ghost list
\* holds the last evictSize of the keys evicted so far, which are the keys
\* added before the resident ones.
C15_ColdScan ==
    (err = "nil" /\ qhist # Off) =>
        LET resident == LastN(qhist, twoq.size)
            evicted  == SubSeq(qhist, 1, Len(qhist) - Len(resident))
        IN  /\ LRULen(twoq.frequent) = 0
            /\ LRUKeys(twoq.recent) = resident
            /\ QKeys(twoq) = resident
            /\ QLen(twoq) <= twoq.size
            /\ LRULen(twoq.recentEvict) <= twoq.recentEvict.capacity
            /\ LRUKeys(twoq.recentEvict) = LastN(evicted, twoq.recentEvict.capacity)
            /\ qlock.w = 0

\* Every key has been added once, and more keys were evicted than the ghost
\* list holds.
C15_Witness ==
    /\ err = "nil" /\ qhist # Off /\ Len(qhist) = NumKeys
    /\ LRULen(twoq.recent) = twoq.size
    /\ LRULen(twoq.recentEvict) = twoq.recentEvict.capacity
    /\ NumKeys > twoq.size + twoq.recentEvict.capacity

\* The resident keys of c.
Resident(c) == LRUKeySet(c.recent) \cup LRUKeySet(c.frequent)

\* C16: an Add(k, v) that finds k in recentEvict (k is then in neither
\* recent nor frequent) evicts at most one resident entry, in its
\* ensureSpace(true), and returns with k in frequent as its newest entry
\* with value v, in neither recent nor recentEvict, and with no resident
\* key lost since ensureSpace.
C16_GhostHit ==
    [][\A t \in Threads :
         /\ \A k \in Keys, v \in Vals :
              (QAdd_Call(t, k, v) /\ ~QContains(twoq, k)
                 /\ LRUContains(twoq.recentEvict, k)) =>
                 /\ qlock'.w = t /\ qpc'[t] = "locked"
                 /\ qloc'[t] = [op |-> "Add", at |-> "ghost", key |-> k, value |-> v]
                 /\ Resident(twoq') \subseteq Resident(twoq)
                 /\ Cardinality(Resident(twoq) \ Resident(twoq')) <= 1
                 /\ ~QContains(twoq', k)
         /\ (QAdd_Finish(t) /\ qloc[t].at = "ghost") =>
                 /\ qlock'.w = 0
                 /\ InFrequentOnly(twoq', qloc[t].key, qloc[t].value)
                 /\ LRUKeys(twoq'.frequent) =
                       LRUKeys(twoq.frequent) \o <<qloc[t].key>>
                 /\ twoq'.recent = twoq.recent
                 /\ Resident(twoq') = Resident(twoq) \cup {qloc[t].key}]_vars

\* An Add has found its key in recentEvict, and its ensureSpace(true) has
\* left the key there and an entry in frequent.
C16_Witness ==
    \E t \in Threads :
       /\ qpc[t] = "locked" /\ qloc[t].op = "Add" /\ qloc[t].at = "ghost"
       /\ LRUContains(twoq.recentEvict, qloc[t].key)
       /\ LRULen(twoq.frequent) > 0

\* C17: Get(k) never changes Len(), the set of resident keys or the ghost
\* list.  A hit in frequent makes k the newest of frequent, with its value;
\* a hit in recent removes k from recent and inserts it, with the value
\* stored there, as the newest of frequent; for a key in neither, one that
\* is only in the ghost list too, all three sub-caches stay as they are.
C17_Get ==
    [][\A t \in Threads :
         /\ \A k \in Keys :
              QGet_Call(t, k) =>
                 /\ twoq'.recentEvict = twoq.recentEvict
                 /\ IF LRUContains(twoq.frequent, k)
                    THEN /\ qlock'.w = 0
                         /\ QLen(twoq') = QLen(twoq)
                         /\ Resident(twoq') = Resident(twoq)
                         /\ twoq'.recent = twoq.recent
                         /\ LRUKeys(twoq'.frequent) =
                               Without(LRUKeys(twoq.frequent), k) \o <<k>>
                         /\ QPeek(twoq', k) = QPeek(twoq, k)
                    ELSE IF LRUContains(twoq.recent, k)
                    THEN /\ qlock'.w = t /\ qpc'[t] = "locked"
                         /\ qloc'[t] = [op |-> "Get", at |-> "recent", key |-> k,
                                        value |-> LRUPeek(twoq.recent, k).value]
                         /\ LRUKeys(twoq'.recent) = Without(LRUKeys(twoq.recent), k)
                         /\ twoq'.frequent = twoq.frequent
                    ELSE twoq' = twoq /\ qlock'.w = 0
         /\ QGet_Finish(t) =>
              /\ qlock'.w = 0
              /\ twoq'.recentEvict = twoq.recentEvict
              /\ twoq'.recent = twoq.recent
              /\ InFrequentOnly(twoq', qloc[t].key, qloc[t].value)
              /\ LRUKeys(twoq'.frequent) = LRUKeys(twoq.frequent) \o <<qloc[t].key>>
              /\ Resident(twoq') = Resident(twoq) \cup {qloc[t].key}
              /\ QLen(twoq') = QLen(twoq) + 1]_vars

\* ------------------------------------------------ claims, LRU cache (3)
\* C18: Resize(n) on a cache of L entries returns max(0, L - n), removes
\* exactly the L - n oldest entries and keeps the others in their order,
\* and leaves at most n entries and capacity n, so that an Add of a new key
\* evicts exactly when n entries are held; with a callback registered, the
\* removed entries are handed over oldest first, and the callback is
\* invoked for each of them once, in that order, before Resize returns.
C18_ResizeStep(t, n) ==
    LET L    == LRULen(lru)
        d    == IF L - n > 0 THEN L - n ELSE 0
        old  == SubSeq(LRUKeys(lru), 1, d)
        oldv == [i \in 1..d |-> LRUPeek(lru, old[i]).value]
    IN  /\ loc'[t].evictedN = d
        /\ LRUKeys(lru') = SubSeq(LRUKeys(lru), d + 1, L)
        /\ Entries(lru') \subseteq Entries(lru)
        /\ RemovedPairs(lru, lru') = {<<old[i], oldv[i]>> : i \in 1..d}
        /\ LRULen(lru') <= n /\ lru'.capacity = n
        /\ \A k \in Keys, v \in Vals :
              ~LRUContains(lru', k) =>
                  /\ LRUAdd(lru', k, v).ret = (LRULen(lru') = n)
                  /\ LRULen(LRUAdd(lru', k, v).c) <= n
        /\ evictedKeys' = evictedKeys \o (IF onEvictedCB THEN old ELSE <<>>)
        /\ evictedVals' = evictedVals \o (IF onEvictedCB THEN oldv ELSE <<>>)

C18_Resize ==
    [][\A t \in Threads :
         /\ \A n \in 1..MaxCap : Resize_Call(t, n) => C18_ResizeStep(t, n)
         /\ Resize_Unlock(t) =>
              IF onEvictedCB /\ loc[t].evictedN > 0
              THEN /\ Len(evictedKeys) = loc[t].evictedN
                   /\ loc'[t].ks = evictedKeys /\ loc'[t].vs = evictedVals
                   /\ loc'[t].i = 0 /\ pc'[t] = "callback"
              ELSE pc'[t] = "idle" /\ owed' = owed
         /\ (loc'[t].op = "Resize" /\ pc[t] # "idle" /\ pc'[t] = "callback") =>
              /\ loc'[t].i = IF pc[t] = "locked" THEN 0 ELSE loc[t].i + 1
              /\ loc'[t].i < Len(loc'[t].ks)
              /\ owed' = [owed EXCEPT ![<<loc'[t].ks[loc'[t].i + 1],
                                          loc'[t].vs[loc'[t].i + 1]>>] = @ - 1]
         /\ (loc[t].op = "Resize" /\ pc[t] = "callback" /\ pc'[t] = "idle") =>
              loc[t].i + 1 = Len(loc[t].ks)]_vars

\* Resize has removed two entries and the callback is running for the
\* second of them.
C18_Witness ==
    /\ pc[1] = "callback" /\ loc[1].op = "Resize"
    /\ loc[1].evictedN = 2 /\ loc[1].i = 1
    /\ LRULen(lru) = lru.capacity

\* The methods that hand one pair to the callback.
SinglePairOps == {"Add", "ContainsOrAdd", "PeekOrAdd", "Remove", "RemoveOldest"}

\* C19: with a callback registered or not, the two eviction buffers have
\* the same length, and are empty whenever the lock is not held as writer.
\* So, whatever the threads do: while Add, ContainsOrAdd, PeekOrAdd, Remove
\* or RemoveOldest holds the lock, the buffers hold the one entry this call
\* has removed, if it has removed one and a callback is registered, and
\* nothing else; no step of another thread changes the buffers or the
\* cache meanwhile; and the pair the call takes from index 0 when it
\* unlocks, and passes to the callback, is that entry.
C19_Buffers ==
    /\ [](/\ Len(evictedKeys) = Len(evictedVals)
          /\ lock.w = 0 => evictedKeys = <<>>)
    /\ [][\A t \in Threads :
            /\ (lock'.w = t /\ loc'[t].op \in SinglePairOps /\ pc'[t] # pc[t]) =>
                  /\ lock.w \in {0, t}
                  /\ IF onEvictedCB /\ RemovedPairs(lru, lru') # {}
                     THEN /\ Len(evictedKeys') = 1
                          /\ RemovedPairs(lru, lru') = {<<evictedKeys'[1], evictedVals'[1]>>}
                     ELSE evictedKeys' = <<>>
            /\ (lock.w = t /\ pc'[t] = pc[t]) =>
                  /\ lock'.w = t /\ lru' = lru
                  /\ evictedKeys' = evictedKeys /\ evictedVals' = evictedVals
            /\ (lock.w = t /\ lock'.w = 0 /\ loc[t].op \in SinglePairOps) =>
                  IF evictedKeys # <<>>
                  THEN /\ pc'[t] = "callback"
                       /\ loc'[t].k = evictedKeys[1] /\ loc'[t].v = evictedVals[1]
                       /\ owed[<<evictedKeys[1], evictedVals[1]>>] > 0
                       /\ owed' = [owed EXCEPT ![<<evictedKeys[1], evictedVals[1]>>] = @ - 1]
                       /\ ~LRUContains(lru, evictedKeys[1])
                  ELSE pc'[t] = "idle" /\ owed' = owed]_vars

\* A thread holds the lock with the entry it has removed in the buffers
\* while the callback of another thread runs for another entry.
C19_Witness ==
    \E t \in Threads, u \in Threads :
       /\ lock.w = t /\ pc[t] = "locked" /\ loc[t].op \in SinglePairOps
       /\ Len(evictedKeys) = 1
       /\ pc[u] = "callback" /\ loc[u].op \in SinglePairOps
       /\ loc[u].k # evictedKeys[1]

\* ------------------------------------------------ claims, recency list
\* The entries from the front along next, and from the back along prev.
Forward == walkNext(rlist, rlist.n[Root].next, NumKeys + 1)
Backward == walkBack(rlist, back(rlist), NumKeys + 1)

\* C20: after any sequence of pushFront, moveToFront and remove of an entry
\* of the list, len is the number of entries reached from the root, these
\* are the entries whose list pointer is this list, and N.prev.next == N
\* and N.next.prev == N for each of them and for the root (once the list
\* is initialised); pushFront and moveToFront of an entry of the list make
\* it the front and keep the order of the others, remove takes it out and
\* clears its pointers; moveToFront of an entry that was removed leaves the
\* list as it is.
C20_ListInv ==
    /\ rlist.len = Len(Forward)
    /\ Range(Forward) = {e \in Keys : Member(e)}
    /\ Cardinality(Range(Forward)) = rlist.len
    /\ Backward = Reverse(Forward)
    /\ \A N \in {e \in Node : Member(e) \/ (e = Root /\ rlist.n[Root].next # Nil)} :
          /\ rlist.n[rlist.n[N].prev].next = N
          /\ rlist.n[rlist.n[N].next].prev = N
    /\ last.op \in {"pushFront", "moveToFront"} => rlist.n[Root].next = last.e

C20_List ==
    /\ []C20_ListInv
    /\ [][/\ \A e \in Keys :
              /\ List_moveToFront(e) =>
                    walkNext(rlist', rlist'.n[Root].next, NumKeys + 1) = <<e>> \o Without(Forward, e)
              /\ List_moveToFrontRemoved(e) => rlist' = rlist
              /\ List_remove(e) =>
                    /\ walkNext(rlist', rlist'.n[Root].next, NumKeys + 1) = Without(Forward, e)
                    /\ rlist'.n[e].next = Nil /\ rlist'.n[e].prev = Nil /\ rlist'.n[e].list = Nil
                    /\ rlist'.n[e].value = rlist.n[e].value
          /\ \A k \in Keys, v \in Vals :
              List_pushFront(k, v) =>
                    walkNext(rlist', rlist'.n[Root].next, NumKeys + 1) = <<k>> \o Forward]_vars

\* moveToFront was called for an entry removed from a list that holds two
\* others.
C20_Witness ==
    /\ last.op = "moveToFront removed" /\ Removed(last.e)
    /\ rlist.len = 2 /\ Len(Forward) = 2

=============================================================================
